---------------------------- MODULE Spec2Model ----------------------------
(***************************************************************************)
(* KeyboardWarrior (src/script.js): the music-script parser                *)
(* (parseMusicScript), the Game transport (play / stop / playStop,         *)
(* setNotes / setGhostNotes, calculateRanges), the two AudioPlayer         *)
(* instances and the host's timer table (setTimeout / clearTimeout).       *)
(*                                                                         *)
(* JavaScript numbers are modelled as pairs <<n, d>>: d > 0 is the         *)
(* rational n/d in lowest terms, <<0,0>> is NaN, <<1,0>> is +Infinity and  *)
(* <<-1,0>> is -Infinity.  Rounding of IEEE doubles and the sign of zero   *)
(* are not modelled.  A JavaScript string is a sequence of one-character   *)
(* strings.                                                                *)
(***************************************************************************)
EXTENDS Integers, Sequences, FiniteSets, TLC

(***************************************************************************)
(* Bounds of the model.                                                    *)
(***************************************************************************)
MaxLines == 3
MaxPlays == 2

(***************************************************************************)
(* JavaScript numbers.                                                     *)
(***************************************************************************)
NaN == <<0, 0>>
PosInf == <<1, 0>>
NegInf == <<-1, 0>>

Abs(x) == IF x < 0 THEN -x ELSE x

Sign(x) == IF x < 0 THEN -1 ELSE IF x > 0 THEN 1 ELSE 0

RECURSIVE GCD(_, _)
GCD(a, b) == IF b = 0 THEN a ELSE GCD(b, a % b)

\* The canonical pair of the quotient n/d.
Norm(n, d) ==
    IF d = 0 THEN <<Sign(n), 0>>
    ELSE LET g == GCD(Abs(n), Abs(d))
         IN  <<(Sign(d) * n) \div g, Abs(d) \div g>>

Int2Num(i) == <<i, 1>>

isNaN(x) == x = NaN

IsFinite(x) == x[2] # 0

JsAdd(a, b) ==
    IF isNaN(a) \/ isNaN(b) THEN NaN
    ELSE IF ~IsFinite(a) /\ ~IsFinite(b) THEN (IF a = b THEN a ELSE NaN)
    ELSE IF ~IsFinite(a) THEN a
    ELSE IF ~IsFinite(b) THEN b
    ELSE Norm(a[1] * b[2] + b[1] * a[2], a[2] * b[2])

JsNeg(a) == <<-a[1], a[2]>>

JsSub(a, b) == JsAdd(a, JsNeg(b))

JsMul(a, b) == Norm(a[1] * b[1], a[2] * b[2])

JsRecip(a) ==
    IF a[1] = 0 THEN (IF a[2] = 0 THEN NaN ELSE PosInf)
    ELSE IF a[1] < 0 THEN <<-a[2], -a[1]>>
    ELSE <<a[2], a[1]>>

JsDiv(a, b) == JsMul(a, JsRecip(b))

\* a < b and a > b as JavaScript evaluates them: false when either is NaN.
JsLt(a, b) ==
    /\ ~isNaN(a)
    /\ ~isNaN(b)
    /\ a # b
    /\ IF ~IsFinite(a) THEN a = NegInf
       ELSE IF ~IsFinite(b) THEN b = PosInf
       ELSE a[1] * b[2] < b[1] * a[2]

JsGt(a, b) == JsLt(b, a)

(***************************************************************************)
(* JavaScript strings.                                                     *)
(***************************************************************************)
Digits == <<"0", "1", "2", "3", "4", "5", "6", "7", "8", "9">>

Lower == <<"a", "b", "c", "d", "e", "f", "g", "h", "i", "j", "k", "l", "m",
           "n", "o", "p", "q", "r", "s", "t", "u", "v", "w", "x", "y", "z">>

Upper == <<"A", "B", "C", "D", "E", "F", "G", "H", "I", "J", "K", "L", "M",
           "N", "O", "P", "Q", "R", "S", "T", "U", "V", "W", "X", "Y", "Z">>

WhiteSpace == {" ", "\t", "\r", "\n"}

IsDigit(c) == \E i \in 1..10 : Digits[i] = c

DigitVal(c) == (CHOOSE i \in 1..10 : Digits[i] = c) - 1

UpperChar(c) ==
    IF \E i \in 1..26 : Lower[i] = c
    THEN Upper[CHOOSE i \in 1..26 : Lower[i] = c]
    ELSE c

toUpperCase(s) == [i \in 1..Len(s) |-> UpperChar(s[i])]

startsWith(s, p) == Len(s) >= Len(p) /\ SubSeq(s, 1, Len(p)) = p

includes(s, c) == \E i \in 1..Len(s) : s[i] = c

RECURSIVE trimStart(_)
trimStart(s) ==
    IF s # <<>> /\ Head(s) \in WhiteSpace THEN trimStart(Tail(s)) ELSE s

RECURSIVE trimEnd(_)
trimEnd(s) ==
    IF s # <<>> /\ s[Len(s)] \in WhiteSpace
    THEN trimEnd(SubSeq(s, 1, Len(s) - 1))
    ELSE s

trim(s) == trimEnd(trimStart(s))

\* s.split(sep) for a one-character separator.
RECURSIVE split(_, _)
split(s, sep) ==
    IF ~includes(s, sep) THEN <<s>>
    ELSE LET i == CHOOSE k \in 1..Len(s) :
                     s[k] = sep /\ \A j \in 1..(k - 1) : s[j] # sep
         IN  <<SubSeq(s, 1, i - 1)>> \o split(SubSeq(s, i + 1, Len(s)), sep)

\* String(undefined): what parseFloat and parseInt see for a missing element.
UndefinedStr == <<"u", "n", "d", "e", "f", "i", "n", "e", "d">>

\* arr[i] of a JavaScript array (0-based), undefined when out of range.
At(arr, i) == IF i + 1 <= Len(arr) THEN arr[i + 1] ELSE UndefinedStr

\* The longest prefix of decimal digits of s.
RECURSIVE DigitPrefix(_)
DigitPrefix(s) ==
    IF s # <<>> /\ IsDigit(Head(s)) THEN <<Head(s)>> \o DigitPrefix(Tail(s))
    ELSE <<>>

RECURSIVE DigitsValue(_)
DigitsValue(ds) ==
    IF ds = <<>> THEN 0
    ELSE 10 * DigitsValue(SubSeq(ds, 1, Len(ds) - 1)) + DigitVal(ds[Len(ds)])

RECURSIVE Pow10(_)
Pow10(k) == IF k = 0 THEN 1 ELSE 10 * Pow10(k - 1)

\* The sign prefix of a numeric literal: <<sign, rest>>.
SignSplit(s) ==
    IF s # <<>> /\ Head(s) = "-" THEN <<-1, Tail(s)>>
    ELSE IF s # <<>> /\ Head(s) = "+" THEN <<1, Tail(s)>>
    ELSE <<1, s>>

\* parseInt(s): leading white space, a sign, the decimal digit prefix.  The
\* 0x prefix of a hexadecimal literal is outside the input alphabet.
parseInt(s) ==
    LET ss == SignSplit(trimStart(s))
        ds == DigitPrefix(ss[2])
    IN  IF ds = <<>> THEN NaN ELSE Int2Num(ss[1] * DigitsValue(ds))

\* parseFloat(s): leading white space, a sign, digits, a point, digits.
\* Exponents and the literal Infinity are outside the input alphabet.
parseFloat(s) ==
    LET ss == SignSplit(trimStart(s))
        ip == DigitPrefix(ss[2])
        r1 == SubSeq(ss[2], Len(ip) + 1, Len(ss[2]))
        fp == IF r1 # <<>> /\ Head(r1) = "." THEN DigitPrefix(Tail(r1))
              ELSE <<>>
    IN  IF ip = <<>> /\ fp = <<>> THEN NaN
        ELSE Norm(ss[1] * (DigitsValue(ip) * Pow10(Len(fp)) + DigitsValue(fp)),
                  Pow10(Len(fp)))


(***************************************************************************)
(* parseMusicScript (src/script.js:277-344).                               *)
(***************************************************************************)
VARIABLES parser

kwOctave == <<"o", "c", "t", "a", "v", "e">>

kwStep == <<"s", "t", "e", "p">>

kwRest == <<"r", "e", "s", "t">>

\* octaveStructure: the key and the note of each of its twelve entries.
octaveStructure ==
    << [note |-> 60, key |-> <<"C">>],      [note |-> 61, key |-> <<"C", "#">>],
       [note |-> 62, key |-> <<"D">>],      [note |-> 63, key |-> <<"D", "#">>],
       [note |-> 64, key |-> <<"E">>],      [note |-> 65, key |-> <<"F">>],
       [note |-> 66, key |-> <<"F", "#">>], [note |-> 67, key |-> <<"G">>],
       [note |-> 68, key |-> <<"G", "#">>], [note |-> 69, key |-> <<"A">>],
       [note |-> 70, key |-> <<"A", "#">>], [note |-> 71, key |-> <<"B">>] >>

\* octaveStructure.find(n => n.key.toUpperCase() === noteLetter.toUpperCase()):
\* the index of the first match, 0 for undefined.
findNote(noteLetter) ==
    LET hits == {i \in 1..Len(octaveStructure) :
                    toUpperCase(octaveStructure[i].key) = toUpperCase(noteLetter)}
    IN  IF hits = {} THEN 0
        ELSE CHOOSE i \in hits : \A j \in hits : i <= j

\* The locals of parseMusicScript at its first line.
defaultOctave == 0

ParserLocals ==
    [notes |-> <<>>,
     octave |-> Int2Num(defaultOctave),
     stepDuration |-> <<1, 4>>,
     currentTime |-> Int2Num(0),
     thrown |-> FALSE]

\* octave = parseInt(line.split(" ")[1])
octaveOf(line) == parseInt(At(split(line, " "), 1))

\* The fraction branch of a step line: 1 / (parseFloat(B) / parseFloat(A)).
stepFractionOf(line) ==
    LET stepParts == split(line, " ")
        stepFraction == split(At(stepParts, 1), "/")
    IN  JsDiv(Int2Num(1),
              JsDiv(parseFloat(At(stepFraction, 1)), parseFloat(At(stepFraction, 0))))

\* The decimal branch of a step line, NaN replaced by the old value.
stepDecimalOf(line, old) ==
    LET v == parseFloat(At(split(line, " "), 1))
    IN  IF isNaN(v) THEN old ELSE v

noteValueOfOctaveTimes12(entry, oct) ==
    JsAdd(Int2Num(entry.note), JsMul(oct, Int2Num(12)))

\* note.note + ((octave - 4) * 12)
noteValueOf(entry, oct) ==
    JsAdd(Int2Num(entry.note), JsMul(JsSub(oct, Int2Num(4)), Int2Num(12)))

restKeepsCursor(st) == st.currentTime

\* currentTime += stepDuration of a rest line.
afterRest(st) == JsAdd(st.currentTime, st.stepDuration)

afterNoteDefaultStep(st) == JsAdd(st.currentTime, ParserLocals.stepDuration)

\* currentTime += stepDuration after a note was pushed.
afterNote(st) == JsAdd(st.currentTime, st.stepDuration)

\* One call of the forEach callback: the locals after `line`.
parseLine(st, line) ==
    IF startsWith(line, kwOctave) THEN
        IF ~includes(line, " ") THEN st
        ELSE [st EXCEPT !.octave = octaveOf(line)]
    ELSE IF startsWith(line, kwStep) THEN
        IF ~includes(line, " ") THEN st
        ELSE IF includes(line, "/")
             THEN [st EXCEPT !.stepDuration = stepFractionOf(line)]
             ELSE [st EXCEPT !.stepDuration = stepDecimalOf(line, st.stepDuration)]
    ELSE IF trim(line) # <<>> THEN
        IF trim(line) = kwRest
        THEN [st EXCEPT !.currentTime = afterRest(st)]
        ELSE LET noteLetter == trim(line)
                 k == findNote(noteLetter)
             IN  IF k = 0 THEN [st EXCEPT !.thrown = TRUE]
                 ELSE [st EXCEPT
                         !.notes = Append(st.notes,
                             [noteValue |-> noteValueOf(octaveStructure[k], st.octave),
                              noteLetter |-> noteLetter,
                              startTime |-> st.currentTime,
                              endTime |-> JsAdd(st.currentTime, st.stepDuration)]),
                         !.currentTime = afterNote(st)]
    ELSE st

\* lines.forEach(...) from line i on; a throw leaves the loop.
RECURSIVE forEachLine(_, _, _)
forEachLine(st, lines, i) ==
    IF st.thrown \/ i > Len(lines) THEN st
    ELSE forEachLine(parseLine(st, lines[i]), lines, i + 1)

\* parseMusicScript(input): the notes, or [] when the callback threw.
parseMusicScript(input) ==
    LET st == forEachLine(ParserLocals, split(input, "\n"), 1)
    IN  IF st.thrown THEN <<>> ELSE st.notes

(***************************************************************************)
(* The parser run step by step: `parser` holds one call's input, its       *)
(* locals, the index of the next line and, once it returned, the result.   *)
(***************************************************************************)
ParserIdle == [pc |-> "idle"]

ParserStart(input) ==
    [pc |-> "forEach", input |-> input, lines |-> split(input, "\n"),
     next |-> 1, locals |-> ParserLocals, result |-> <<>>]

ParseLineStep ==
    /\ parser.pc = "forEach"
    /\ parser.next <= Len(parser.lines)
    /\ ~parser.locals.thrown
    /\ parser' = [parser EXCEPT
                    !.locals = parseLine(parser.locals, parser.lines[parser.next]),
                    !.next = parser.next + 1]

ParseCatchPartial ==
    /\ parser.pc = "forEach"
    /\ parser.locals.thrown
    /\ parser' = [parser EXCEPT !.pc = "returned", !.result = parser.locals.notes]

\* catch(e){ ... return [] }
ParseCatch ==
    /\ parser.pc = "forEach"
    /\ parser.locals.thrown
    /\ parser' = [parser EXCEPT !.pc = "returned", !.result = <<>>]

ParseReturn ==
    /\ parser.pc = "forEach"
    /\ ~parser.locals.thrown
    /\ parser.next > Len(parser.lines)
    /\ parser' = [parser EXCEPT !.pc = "returned", !.result = parser.locals.notes]

(***************************************************************************)
(* Script inputs.                                                          *)
(***************************************************************************)
RECURSIVE Decimal(_)
Decimal(n) ==
    IF n < 0 THEN <<"-">> \o Decimal(-n)
    ELSE IF n < 10 THEN <<Digits[n + 1]>>
    ELSE Decimal(n \div 10) \o <<Digits[(n % 10) + 1]>>

toLowerCase(s) ==
    [i \in 1..Len(s) |->
        IF \E k \in 1..26 : Upper[k] = s[i]
        THEN Lower[CHOOSE k \in 1..26 : Upper[k] = s[i]]
        ELSE s[i]]

\* The text of a sequence of lines.
RECURSIVE JoinLines(_)
JoinLines(ls) ==
    IF ls = <<>> THEN <<>>
    ELSE IF Len(ls) = 1 THEN ls[1]
    ELSE ls[1] \o <<"\n">> \o JoinLines(Tail(ls))

MaxOctaveArg == 4

OctaveArgs == ((-MaxOctaveArg)..MaxOctaveArg) \cup {10}

OctaveLine(n) == kwOctave \o <<" ">> \o Decimal(n)

KeyLines ==
    {octaveStructure[i].key : i \in 1..12}
        \cup {toLowerCase(octaveStructure[i].key) : i \in 1..12}

UnknownLine == <<"H">>

\* Up to MaxLines - 1 octave directives and then one pitch line.
OctaveScripts ==
    {JoinLines([i \in 1..Len(ds) |-> OctaveLine(ds[i])] \o <<l>>) :
        ds \in UNION {[1..k -> OctaveArgs] : k \in 0..(MaxLines - 1)},
        l \in KeyLines \cup {UnknownLine}}

StepLine(arg) == kwStep \o <<" ">> \o arg

\* Step arguments that are numbers, with the number each one denotes.
StepForms ==
    {[arg |-> <<"1", "/", "8">>, value |-> <<1, 8>>],
     [arg |-> <<"0", ".", "5">>, value |-> <<1, 2>>],
     [arg |-> <<"0">>,           value |-> <<0, 1>>],
     [arg |-> <<"-", "1">>,      value |-> <<-1, 1>>]}

\* Step arguments that are not numbers: a word, a fraction with its
\* denominator missing, a fraction with a non-numeric numerator.
MalformedStepArgs ==
    {<<"b", "a", "n", "a", "n", "a">>, <<"1", "/">>, <<"x", "/", "8">>}

TimingLines ==
    {StepLine(f.arg) : f \in StepForms}
        \cup {StepLine(a) : a \in MalformedStepArgs}
        \cup {kwRest, <<"C">>, <<"e">>, UnknownLine}

\* Up to MaxLines lines of step directives, rests and pitch tokens.
TimingScripts ==
    {JoinLines(ls) : ls \in UNION {[1..k -> TimingLines] : k \in 0..MaxLines}}

\* Octave directives whose argument is not a number: a word, and a number
\* after two spaces.
MalformedOctaveLines ==
    {kwOctave \o <<" ", "x">>, kwOctave \o <<" ", " ", "5">>}

OctaveFormLines ==
    MalformedOctaveLines \cup {OctaveLine(3), OctaveLine(4), kwOctave, <<"C">>, <<"B">>}

\* Up to MaxLines lines of octave directives, well formed or not, and pitch
\* tokens.
OctaveFormScripts ==
    {JoinLines(ls) : ls \in UNION {[1..k -> OctaveFormLines] : k \in 0..MaxLines}}

\* Directives and a pitch token, each as it is and behind leading blanks.
IndentedLines ==
    {OctaveLine(5), <<" ", " ">> \o OctaveLine(5),
     StepLine(<<"1", "/", "8">>), <<" ">> \o StepLine(<<"1", "/", "8">>),
     <<"C">>, <<" ">> \o <<"C">>}

\* Up to MaxLines lines, indented or not.
IndentedScripts ==
    {JoinLines(ls) : ls \in UNION {[1..k -> IndentedLines] : k \in 0..MaxLines}}

ScriptInputs ==
    OctaveScripts \cup TimingScripts \cup OctaveFormScripts \cup IndentedScripts

(***************************************************************************)
(* AudioPlayer (src/script.js:1-68): activeOscillators, as the set of its  *)
(* keys.  The oscillator and gain nodes are the audio backend's.           *)
(***************************************************************************)
stopNote(active, note) == active \ {note}

\* stopNote(note), then a new oscillator stored under the key note.
playNote(active, note) == stopNote(active, note) \cup {note}

\* !note of a JavaScript number: 0 and NaN.
Falsy(x) == x = Int2Num(0) \/ isNaN(x)

\* stopAll() skips the entries whose key is falsy.
stopAll(active) == {n \in active : Falsy(n)}

(***************************************************************************)
(* Game (src/script.js:346-658), the global audioPlayer it calls in        *)
(* stop(), and the host: the clock (Date.now) and the timer table.         *)
(***************************************************************************)
VARIABLES
    notes, ghostNotes,                       \* Game.notes, Game.ghostNotes
    highestNote, lowestNote,                 \* set by calculateRanges
    highestNoteLetter, lowestNoteLetter,
    end,                                     \* Game.end
    playing, startTime, notesQueued,         \* the transport
    sword,                                   \* the sword element
    gameAudio,                               \* this.audioPlayer.activeOscillators
    globalAudio,                             \* audioPlayer.activeOscillators
    timers, nextTimer,                       \* live timeouts, next handle
    now,                                     \* Date.now(), in ms
    plays,                                   \* history: one record per scheduling play()
    stopMark,                                \* history: Len(plays) at the last stop()
    ally,                                    \* AccessibilityMIDIKeyboard
    lastOp                                   \* history: the transport operation or
                                             \* trigger that ran last, if any

gvars == <<notes, ghostNotes, highestNote, lowestNote, highestNoteLetter,
           lowestNoteLetter, end, playing, startTime, notesQueued, sword,
           gameAudio, globalAudio, timers, nextTimer, now, plays, stopMark,
           ally, lastOp>>

vars == <<parser, notes, ghostNotes, highestNote, lowestNote,
          highestNoteLetter, lowestNoteLetter, end, playing, startTime,
          notesQueued, sword, gameAudio, globalAudio, timers, nextTimer, now,
          plays, stopMark, ally, lastOp>>

\* The value undefined; ToNumber(undefined) is NaN.
Undefined == <<>>

ToNumber(x) == IF x = Undefined THEN NaN ELSE x

bpm == 120

startDelay == <<1, 2>>

\* notes.reduce((prev, current) => (prev.noteValue > current.noteValue) ? prev : current)
RECURSIVE reduceMax(_, _, _)
reduceMax(prev, ns, i) ==
    IF i > Len(ns) THEN prev
    ELSE reduceMax(IF JsGt(prev.noteValue, ns[i].noteValue) THEN prev ELSE ns[i],
                   ns, i + 1)

RECURSIVE reduceMin(_, _, _)
reduceMin(prev, ns, i) ==
    IF i > Len(ns) THEN prev
    ELSE reduceMin(IF JsLt(prev.noteValue, ns[i].noteValue) THEN prev ELSE ns[i],
                   ns, i + 1)

calculate(ns) ==
    [maxNote |-> reduceMax(ns[1], ns, 2), minNote |-> reduceMin(ns[1], ns, 2)]

\* Math.max of the elements of a sequence of numbers.
RECURSIVE MathMax(_)
MathMax(xs) ==
    IF xs = <<>> THEN NegInf
    ELSE LET m == MathMax(Tail(xs))
             x == Head(xs)
         IN  IF isNaN(x) \/ isNaN(m) THEN NaN
             ELSE IF JsGt(x, m) THEN x ELSE m

\* Math.max.apply(undefined, ghostEnds, noteEnds): apply takes the arguments
\* from its second parameter and ignores the third.
endOf(ns, gs) == MathMax([i \in 1..Len(gs) |-> gs[i].endTime])

calculateRangesNotesFirst(ns, gs) ==
    LET m == IF Len(ns) > 0 THEN calculate(ns) ELSE calculate(gs)
    IN  IF Len(gs) > 0 \/ Len(ns) > 0
        THEN [highestNote |-> m.maxNote.noteValue,
              lowestNote |-> m.minNote.noteValue,
              highestNoteLetter |-> m.maxNote.noteLetter,
              lowestNoteLetter |-> m.minNote.noteLetter,
              end |-> endOf(ns, gs)]
        ELSE [highestNote |-> Undefined,
              lowestNote |-> Undefined,
              highestNoteLetter |-> <<"C">>,
              lowestNoteLetter |-> <<"C">>,
              end |-> endOf(ns, gs)]

\* calculateRanges(): the five fields it assigns.
calculateRanges(ns, gs) ==
    LET both == LET g == calculate(gs)
                    r == calculate(ns)
                IN  [maxNote |-> IF JsGt(g.maxNote.noteValue, r.maxNote.noteValue)
                                 THEN g.maxNote ELSE r.maxNote,
                     minNote |-> IF JsLt(g.minNote.noteValue, r.minNote.noteValue)
                                 THEN g.minNote ELSE r.minNote]
        m == IF Len(gs) > 0 /\ Len(ns) > 0 THEN both
             ELSE IF Len(gs) > 0 THEN calculate(gs)
             ELSE calculate(ns)
    IN  IF Len(gs) > 0 \/ Len(ns) > 0
        THEN [highestNote |-> m.maxNote.noteValue,
              lowestNote |-> m.minNote.noteValue,
              highestNoteLetter |-> m.maxNote.noteLetter,
              lowestNoteLetter |-> m.minNote.noteLetter,
              end |-> endOf(ns, gs)]
        ELSE [highestNote |-> Undefined,
              lowestNote |-> Undefined,
              highestNoteLetter |-> <<"C">>,
              lowestNoteLetter |-> <<"C">>,
              end |-> endOf(ns, gs)]

SetRanges(r) ==
    /\ highestNote' = r.highestNote
    /\ lowestNote' = r.lowestNote
    /\ highestNoteLetter' = r.highestNoteLetter
    /\ lowestNoteLetter' = r.lowestNoteLetter
    /\ end' = r.end

rangeVars == <<highestNote, lowestNote, highestNoteLetter, lowestNoteLetter, end>>

transportVars == <<playing, startTime, notesQueued>>

hostVars == <<timers, nextTimer, now>>

(***************************************************************************)
(* The texts the editor and the song list hand to parseMusicScript.        *)
(***************************************************************************)
TextCE == JoinLines(<<OctaveLine(4), <<"C">>, <<"E">>>>)

TextE == JoinLines(<<OctaveLine(4), <<"E">>>>)

EditorTexts == {<<>>, UnknownLine, TextCE}

SongTexts == {TextE}

\* What parseMusicScript returns for them.
EditorNotes == {parseMusicScript(text) : text \in EditorTexts}

SongNotes == {parseMusicScript(text) : text \in SongTexts}

\* The keys of the live keyboard the model presses.
LiveNotes == {Int2Num(60)}

\* The keys the model holds for the AccessibilityMIDIKeyboard.
HoldKeys == {Int2Num(60), Int2Num(62)}

(***************************************************************************)
(* The host's timers.                                                      *)
(***************************************************************************)
\* The timeout argument of setTimeout as the host takes it: a whole number
\* of milliseconds, 0 for NaN, an infinity or a negative number.
toLong(x) ==
    IF ~IsFinite(x) \/ x[1] < 0 THEN 0 ELSE x[1] \div x[2]

\* (beats + this.startDelay) * 1000 * (120.0 / this.bpm)
triggerDelay(beats) ==
    JsMul(JsMul(JsAdd(beats, startDelay), Int2Num(1000)),
          JsDiv(Int2Num(120), Int2Num(bpm)))

\* The two timeouts play() sets for notes[i], the first with handle h.
noteTimers(ns, i, h, gen) ==
    { [id |-> h, kind |-> "on", note |-> ns[i], idx |-> i, gen |-> gen,
       due |-> now + toLong(triggerDelay(ns[i].startTime))],
      [id |-> h + 1, kind |-> "off", note |-> ns[i], idx |-> i, gen |-> gen,
       due |-> now + toLong(triggerDelay(ns[i].endTime))] }

\* The pitch a trigger's callback hands to the audio player: the noteValue
\* of the note object its closure captured.
triggerPitchLive(t) ==
    IF t.idx <= Len(notes) THEN notes[t.idx].noteValue ELSE NaN

triggerPitch(t) == t.note.noteValue

\* The timeout the host runs next: due, and first by deadline and handle.
IsNextTimer(t) ==
    /\ t \in timers
    /\ t.due <= now
    /\ \A u \in timers : u.due > t.due \/ (u.due = t.due /\ u.id >= t.id)

\* clearTimeout of every handle of hs.
clearTimeouts(hs) == {t \in timers : \A k \in 1..Len(hs) : hs[k] # t.id}

(***************************************************************************)
(* Game: constructor, setNotes, setGhostNotes.                             *)
(***************************************************************************)
\* new AccessibilityMIDIKeyboard(): heldNotes = {}, a key with no entry
\* written as the handle 0, which no timeout has.  offMark keeps, for each
\* key, the next handle at its last noteoff (history), and inserted the
\* notes the callback was called with (history).
AllyNew ==
    [heldNotes |-> [n \in HoldKeys |-> 0],
     offMark |-> [n \in HoldKeys |-> 0],
     inserted |-> <<>>]

GameInit ==
    /\ notes = <<>>
    /\ ghostNotes = <<>>
    /\ LET r == calculateRanges(<<>>, <<>>)
       IN  /\ highestNote = r.highestNote
           /\ lowestNote = r.lowestNote
           /\ highestNoteLetter = r.highestNoteLetter
           /\ lowestNoteLetter = r.lowestNoteLetter
           /\ end = r.end
    /\ playing = FALSE
    /\ startTime = 0
    /\ notesQueued = <<>>
    /\ sword = [swing |-> FALSE, top |-> Undefined, display |-> "none"]
    /\ gameAudio = {}
    /\ globalAudio = {}
    /\ timers = {}
    /\ nextTimer = 1
    /\ now = 0
    /\ plays = <<>>
    /\ stopMark = 0
    /\ ally = AllyNew
    /\ lastOp = [op |-> "new"]

\* game.setNotes(parseMusicScript(editorValue)): the editor's change handler.
setNotes(parsed) ==
    /\ notes' = parsed
    /\ SetRanges(calculateRanges(notes', ghostNotes))
    /\ lastOp' = [op |-> "other"]
    /\ UNCHANGED <<parser, ally, ghostNotes, transportVars, sword, gameAudio,
                   globalAudio, hostVars, plays, stopMark>>

\* game.setGhostNotes(parseMusicScript(song)): a song button.
setGhostNotes(parsed) ==
    /\ ghostNotes' = parsed
    /\ SetRanges(calculateRanges(notes, ghostNotes'))
    /\ lastOp' = [op |-> "other"]
    /\ UNCHANGED <<parser, ally, notes, transportVars, sword, gameAudio,
                   globalAudio, hostVars, plays, stopMark>>

(***************************************************************************)
(* Game: play, stop, playStop.                                             *)
(***************************************************************************)
neverReturnsEarly == FALSE

\* if(this.notes.length < 1) return;
playReturnsEarly == Len(notes) < 1

\* The body of play() after its guard.  shuffleMonsters() permutes the
\* sprites drawAnimation picks from; no other state depends on them.
playBody ==
    LET gen == Len(plays) + 1
        set == UNION {noteTimers(notes, i, nextTimer + 2 * (i - 1), gen) :
                        i \in 1..Len(notes)}
    IN  /\ startTime' = now
        /\ playing' = TRUE
        /\ notesQueued' = [i \in 1..Len(notes) |-> nextTimer + 2 * (i - 1)]
        /\ timers' = timers \cup set
        /\ nextTimer' = nextTimer + 2 * Len(notes)
        /\ sword' = [sword EXCEPT !.display = "block"]
        /\ plays' = Append(plays, [notes |-> notes, at |-> now,
                                   ids |-> {t.id : t \in set}])
        /\ UNCHANGED <<gameAudio, globalAudio, now, stopMark>>

doPlay ==
    IF playReturnsEarly
    THEN UNCHANGED <<transportVars, sword, gameAudio, globalAudio, hostVars,
                     plays, stopMark>>
    ELSE playBody

\* The model stops scheduling after MaxPlays playbacks.
CanPlay == playReturnsEarly \/ Len(plays) < MaxPlays

doStop ==
    /\ playing' = FALSE
    /\ sword' = [sword EXCEPT !.display = "none"]
    /\ timers' = clearTimeouts(notesQueued)
    /\ notesQueued' = <<>>
    /\ globalAudio' = stopAll(globalAudio)
    /\ stopMark' = Len(plays)
    /\ UNCHANGED <<startTime, gameAudio, nextTimer, now, plays>>

play ==
    /\ CanPlay
    /\ doPlay
    /\ lastOp' = [op |-> "play", early |-> playReturnsEarly, was |-> playing]
    /\ UNCHANGED <<parser, ally, notes, ghostNotes, rangeVars>>

stop ==
    /\ doStop
    /\ lastOp' = [op |-> "stop"]
    /\ UNCHANGED <<parser, ally, notes, ghostNotes, rangeVars>>

playStopAlwaysPlays == FALSE

\* if(this.playing)
playStopCallsStop == playing

playStop ==
    /\ IF playStopCallsStop THEN doStop ELSE (CanPlay /\ doPlay)
    /\ lastOp' = [op |-> "playStop", was |-> playing]
    /\ UNCHANGED <<parser, ally, notes, ghostNotes, rangeVars>>

(***************************************************************************)
(* The triggers play() scheduled, run by the host.                         *)
(***************************************************************************)
\* (this.highestNote - note.noteValue) * (1.0 / (noteRange + 1))
swordY(pitch) ==
    LET noteRange == JsSub(ToNumber(highestNote), ToNumber(lowestNote))
        noteHeight == JsDiv(Int2Num(1), JsAdd(noteRange, Int2Num(1)))
    IN  JsMul(JsSub(ToNumber(highestNote), pitch), noteHeight)

noteOn(t) ==
    /\ IsNextTimer(t)
    /\ t.kind = "on"
    /\ timers' = timers \ {t}
    /\ gameAudio' = playNote(gameAudio, triggerPitch(t))
    /\ sword' = [sword EXCEPT !.swing = ~sword.swing,
                              !.top = swordY(t.note.noteValue)]
    /\ lastOp' = [op |-> "noteOn", id |-> t.id, gen |-> t.gen, idx |-> t.idx,
                  pitch |-> triggerPitch(t), at |-> now, due |-> t.due]
    /\ UNCHANGED <<parser, ally, notes, ghostNotes, rangeVars, transportVars,
                   globalAudio, nextTimer, now, plays, stopMark>>

noteOffCompletes(t) ==
    /\ IsNextTimer(t)
    /\ t.kind = "off"
    /\ timers' = timers \ {t}
    /\ gameAudio' = stopNote(gameAudio, triggerPitch(t))
    /\ playing' = (playing /\ timers' # {})
    /\ lastOp' = [op |-> "noteOff", id |-> t.id, gen |-> t.gen, idx |-> t.idx,
                  pitch |-> triggerPitch(t), at |-> now, due |-> t.due]
    /\ UNCHANGED <<parser, ally, notes, ghostNotes, rangeVars, startTime,
                   notesQueued, sword, globalAudio, nextTimer, now, plays, stopMark>>

\* The note-off callback: this.audioPlayer.stopNote(note.noteValue).
noteOff(t) ==
    /\ IsNextTimer(t)
    /\ t.kind = "off"
    /\ timers' = timers \ {t}
    /\ gameAudio' = stopNote(gameAudio, triggerPitch(t))
    /\ lastOp' = [op |-> "noteOff", id |-> t.id, gen |-> t.gen, idx |-> t.idx,
                  pitch |-> triggerPitch(t), at |-> now, due |-> t.due]
    /\ UNCHANGED <<parser, ally, notes, ghostNotes, rangeVars, transportVars,
                   sword, globalAudio, nextTimer, now, plays, stopMark>>

\* Time passes to the next deadline, whether or not due timeouts have run.
tick ==
    /\ \E t \in timers : t.due > now
    /\ now' = CHOOSE d \in {t.due : t \in timers} :
                  d > now /\ \A t \in timers : t.due > now => t.due >= d
    /\ lastOp' = [op |-> "other"]
    /\ UNCHANGED <<parser, ally, notes, ghostNotes, rangeVars, transportVars,
                   sword, gameAudio, globalAudio, timers, nextTimer, plays, stopMark>>

(***************************************************************************)
(* The live keyboard, on the global audioPlayer.                           *)
(***************************************************************************)
\* MIDIInput.handleMIDIMessage, command 144 with a velocity above 0.
midiNoteOn(n) ==
    /\ globalAudio' = playNote(globalAudio, n)
    /\ lastOp' = [op |-> "other"]
    /\ UNCHANGED <<parser, ally, notes, ghostNotes, rangeVars, transportVars,
                   sword, gameAudio, hostVars, plays, stopMark>>

\* MIDIInput.handleMIDIMessage, command 128 or velocity 0.
midiNoteOff(n) ==
    /\ globalAudio' = stopNote(globalAudio, n)
    /\ lastOp' = [op |-> "other"]
    /\ UNCHANGED <<parser, ally, notes, ghostNotes, rangeVars, transportVars,
                   sword, gameAudio, hostVars, plays, stopMark>>

\* PianoKeyboard: mousedown on the key of note n.
mouseDown(n) ==
    /\ globalAudio' = playNote(stopAll(globalAudio), n)
    /\ lastOp' = [op |-> "other"]
    /\ UNCHANGED <<parser, ally, notes, ghostNotes, rangeVars, transportVars,
                   sword, gameAudio, hostVars, plays, stopMark>>

\* PianoKeyboard: mouseup anywhere in the document.
mouseUp ==
    /\ globalAudio' = stopAll(globalAudio)
    /\ lastOp' = [op |-> "other"]
    /\ UNCHANGED <<parser, ally, notes, ghostNotes, rangeVars, transportVars,
                   sword, gameAudio, hostVars, plays, stopMark>>

(***************************************************************************)
(* AccessibilityMIDIKeyboard (src/script.js:257-275), on the noteon and    *)
(* noteoff events MIDIInput.handleMIDIMessage dispatches after it played   *)
(* or stopped the note (the actions midiNoteOn and midiNoteOff are the     *)
(* same messages with no listener on the events).  Its hold timeouts live  *)
(* in `timers` with kind "hold".                                           *)
(***************************************************************************)
MaxHolds == 3

\* timeout = .5, timeout * 1000.0
holdTimeoutMs == 500

\* handleMIDIMessage, command 144 with a velocity above 0, and the noteon
\* listener: this.heldNotes[note] = setTimeout(..., timeout * 1000.0).
noteonEvent(n) ==
    /\ nextTimer <= MaxHolds
    /\ globalAudio' = playNote(globalAudio, n)
    /\ timers' = timers \cup {[id |-> nextTimer, kind |-> "hold", note |-> n,
                                due |-> now + holdTimeoutMs]}
    /\ nextTimer' = nextTimer + 1
    /\ ally' = [ally EXCEPT !.heldNotes[n] = nextTimer]
    /\ lastOp' = [op |-> "other"]
    /\ UNCHANGED <<parser, notes, ghostNotes, rangeVars, transportVars, sword,
                   gameAudio, now, plays, stopMark>>

\* handleMIDIMessage, command 128 or velocity 0, and the noteoff listener:
\* clearTimeout(this.heldNotes[note]).
noteoffEvent(n) ==
    /\ globalAudio' = stopNote(globalAudio, n)
    /\ timers' = {t \in timers : t.id # ally.heldNotes[n]}
    /\ ally' = [ally EXCEPT !.offMark[n] = nextTimer]
    /\ lastOp' = [op |-> "other"]
    /\ UNCHANGED <<parser, notes, ghostNotes, rangeVars, transportVars, sword,
                   gameAudio, nextTimer, now, plays, stopMark>>

\* A hold timeout runs: callback(e.detail), which inserts the note's name in
\* the editor (script.js:696-698), whose change handler hands the parse of
\* the new text to setNotes (script.js:719-730).
holdFire(t, parsed) ==
    /\ IsNextTimer(t)
    /\ t.kind = "hold"
    /\ timers' = timers \ {t}
    /\ ally' = [ally EXCEPT !.inserted = Append(ally.inserted, t.note)]
    /\ notes' = parsed
    /\ SetRanges(calculateRanges(notes', ghostNotes))
    /\ lastOp' = [op |-> "hold", id |-> t.id, note |-> t.note, at |-> now]
    /\ UNCHANGED <<parser, ghostNotes, transportVars, sword, gameAudio,
                   globalAudio, nextTimer, now, plays, stopMark>>

(***************************************************************************)
(* Game.draw (src/script.js:466-553) and Game.drawAnimation (556-607), one *)
(* frame of run().  The canvas is the host's: lastOp keeps what the frame  *)
(* did to it, the background fill, the noteHeight it computed (undefined   *)
(* when it computed none), the rectangles of drawNotes and the glyphs of   *)
(* drawAnimation.  The grid lines and letters of the still picture follow  *)
(* from noteHeight and end and are left to the host.                       *)
(***************************************************************************)
\* !x of a number or undefined.
Not(x) == x = Undefined \/ x = Int2Num(0) \/ isNaN(x)

\* (this.end == 0) || (!this.highestNote) || (!this.lowestNote)
drawReturnsEarly == end = Int2Num(0) \/ Not(highestNote) \/ Not(lowestNote)

\* 1.0/(noteRange + 1), noteRange = this.highestNote - this.lowestNote
noteHeightOf(h, l) ==
    JsDiv(Int2Num(1), JsAdd(JsSub(ToNumber(h), ToNumber(l)), Int2Num(1)))

\* y = (this.highestNote - note.noteValue) * noteHeight, for each note of ns.
notesY(ns) ==
    {JsMul(JsSub(ToNumber(highestNote), ns[i].noteValue),
           noteHeightOf(highestNote, lowestNote)) : i \in 1..Len(ns)}

NoFrame ==
    [op |-> "draw", path |-> "return", background |-> FALSE,
     noteHeight |-> Undefined, rects |-> 0, glyphs |-> 0, ys |-> {}]

\* drawAnimation(): the background, noteHeight, a glyph per ghost note at
\* its y (before the bounce of a hit note).
drawAnimation ==
    [op |-> "draw", path |-> "drawAnimation", background |-> TRUE,
     noteHeight |-> noteHeightOf(highestNote, lowestNote),
     rects |-> 0, glyphs |-> Len(ghostNotes), ys |-> notesY(ghostNotes)]

\* The still picture: the background, drawNotes(notes), drawNotes(ghostNotes).
drawStill ==
    [op |-> "draw", path |-> "draw", background |-> TRUE,
     noteHeight |-> noteHeightOf(highestNote, lowestNote),
     rects |-> Len(notes) + Len(ghostNotes), glyphs |-> 0,
     ys |-> notesY(notes) \cup notesY(ghostNotes)]

draw ==
    /\ lastOp' = IF playing THEN drawAnimation
                 ELSE IF drawReturnsEarly THEN NoFrame
                 ELSE drawStill
    /\ UNCHANGED <<parser, ally, notes, ghostNotes, rangeVars, transportVars,
                   sword, gameAudio, globalAudio, hostVars, plays, stopMark>>

(***************************************************************************)
(* Specifications.                                                         *)
(***************************************************************************)
Init == GameInit /\ parser = ParserIdle

Next ==
    \/ \E parsed \in EditorNotes : setNotes(parsed)
    \/ \E parsed \in SongNotes : setGhostNotes(parsed)
    \/ play
    \/ stop
    \/ playStop
    \/ \E t \in timers : noteOn(t)
    \/ \E t \in timers : noteOff(t)
    \/ tick
    \/ \E n \in LiveNotes : midiNoteOn(n)
    \/ \E n \in LiveNotes : midiNoteOff(n)
    \/ \E n \in LiveNotes : mouseDown(n)
    \/ mouseUp

Spec == Init /\ [][Next]_vars

ParseInit ==
    /\ GameInit
    /\ parser \in {ParserStart(input) : input \in ScriptInputs}

ParseNext ==
    /\ ParseLineStep \/ ParseCatch \/ ParseReturn
    /\ UNCHANGED gvars

ParseSpec == ParseInit /\ [][ParseNext]_vars

(***************************************************************************)
(* setNotes and setGhostNotes alone, over the parses of scripts of up to   *)
(* MaxRangeLines lines that place the notes C, F and B in octaves 0 and 5. *)
(***************************************************************************)
MaxRangeLines == 2

RangeLines == {OctaveLine(5), <<"C">>, <<"F">>, <<"B">>}

RangeNotes ==
    {parseMusicScript(JoinLines(ls)) :
        ls \in UNION {[1..k -> RangeLines] : k \in 0..MaxRangeLines}}

RangeNext ==
    \/ \E parsed \in RangeNotes : setNotes(parsed)
    \/ \E parsed \in RangeNotes : setGhostNotes(parsed)

RangeSpec == Init /\ [][RangeNext]_vars

(***************************************************************************)
(* The game with its frames: the editor, the song buttons (the song None   *)
(* is the empty text), the transport, the triggers and draw.               *)
(***************************************************************************)
RenderSongNotes == SongNotes \cup {parseMusicScript(<<>>)}

RenderNext ==
    \/ \E parsed \in EditorNotes : setNotes(parsed)
    \/ \E parsed \in RenderSongNotes : setGhostNotes(parsed)
    \/ play
    \/ stop
    \/ playStop
    \/ \E t \in timers : noteOn(t)
    \/ \E t \in timers : noteOff(t)
    \/ tick
    \/ draw

RenderSpec == Init /\ [][RenderNext]_vars

(***************************************************************************)
(* The transport over scripts with a step directive: a numeric step, a     *)
(* fraction with its denominator missing, a negative step.                 *)
(***************************************************************************)
TempoTexts ==
    {TextCE,
     JoinLines(<<OctaveLine(4), StepLine(<<"1", "/", "8">>), <<"C">>>>),
     JoinLines(<<OctaveLine(4), StepLine(<<"1", "/">>), <<"C">>>>),
     JoinLines(<<OctaveLine(4), StepLine(<<"-", "1">>), <<"C">>>>)}

TempoNotes == {parseMusicScript(text) : text \in TempoTexts}

TempoNext ==
    \/ \E parsed \in TempoNotes : setNotes(parsed)
    \/ play
    \/ stop
    \/ playStop
    \/ \E t \in timers : noteOn(t)
    \/ \E t \in timers : noteOff(t)
    \/ tick

TempoSpec == Init /\ [][TempoNext]_vars

(***************************************************************************)
(* The AccessibilityMIDIKeyboard under noteon and noteoff messages for the *)
(* keys of HoldKeys, up to MaxHolds noteon messages.                       *)
(***************************************************************************)
HoldNext ==
    \/ \E n \in HoldKeys : noteonEvent(n)
    \/ \E n \in HoldKeys : noteoffEvent(n)
    \/ \E t \in timers, parsed \in EditorNotes : holdFire(t, parsed)
    \/ tick

HoldSpec == Init /\ [][HoldNext]_vars

(***************************************************************************)
(* Properties of the transport.                                            *)
(***************************************************************************)
Range(q) == {q[i] : i \in 1..Len(q)}

IsTrigger(o) == o.op = "noteOn" \/ o.op = "noteOff"

\* C1: after play() followed by stop(), no trigger that play() scheduled runs
\* any more: a note-on or note-off callback belongs to a playback started
\* after the last stop().
C1_NoTriggerAfterStop == IsTrigger(lastOp) => lastOp.gen > stopMark

\* C2: play() while the transport is Playing is a no-op: it schedules no
\* trigger and leaves startWallClock and the pending handles as they were.
C2_PlayWhilePlayingNoOp ==
    [][(lastOp'.op = "play" /\ playing)
          => UNCHANGED <<timers, nextTimer, startTime, notesQueued>>]_vars

\* C3: when stop() returns no note is sounding, neither one a playback
\* note-on started nor one of the live keyboard.
C3_StopSilencesAll ==
    lastOp.op = "stop" => (gameAudio = {} /\ globalAudio = {})

\* C4: play() retains the handle of every trigger it schedules, the note-on
\* and the note-off of each note, in pendingTriggers.
C4_AllHandlesRetained ==
    (lastOp.op = "play" /\ ~lastOp.early)
        => plays[Len(plays)].ids \subseteq Range(notesQueued)

\* C5: between operations, Stopped implies that pendingTriggers is empty and
\* Playing implies that it holds the handles the most recent play() scheduled.
C5_QueueMatchesTransport ==
    /\ ~playing => notesQueued = <<>>
    /\ playing => (plays # <<>> /\ Range(notesQueued) = plays[Len(plays)].ids)

\* C6, as stated: after play() on empty notes, in any reachable state, no
\* trigger has been scheduled and the transport is Stopped.
C6_PlayOnEmptyStopped ==
    [][(lastOp'.op = "play" /\ Len(notes) < 1)
          => (~playing' /\ timers' = timers /\ nextTimer' = nextTimer)]_vars

\* C6, amended: play() on empty notes is a no-op: it schedules no trigger and
\* leaves playing, the start time and the pending handles unchanged, so a
\* Stopped transport stays Stopped.
C6_PlayOnEmptyNoOp ==
    [][(lastOp'.op = "play" /\ Len(notes) < 1)
          => UNCHANGED <<playing, timers, nextTimer, startTime, notesQueued>>]_vars

C6_Witness ==
    /\ lastOp.op = "play"
    /\ lastOp.early
    /\ notes = <<>>
    /\ ~playing

\* The deadline of a trigger at `beats` of a playback started at `at`, for
\* the non-negative finite times of the model's scripts.
DeadlineMs(at, beats) == at + ((2 * beats[1] + beats[2]) * 500) \div beats[2]

\* A live trigger is the one its playback's snapshot of notes determines.
FromSnapshot(t) ==
    /\ t.gen \in 1..Len(plays)
    /\ t.idx \in 1..Len(plays[t.gen].notes)
    /\ LET p == plays[t.gen]
           n == p.notes[t.idx]
       IN  /\ triggerPitch(t) = n.noteValue
           /\ t.due = DeadlineMs(p.at, IF t.kind = "on" THEN n.startTime
                                                        ELSE n.endTime)

\* C7: a reparse while Playing does not affect in-flight triggers: setNotes
\* leaves the scheduled triggers as they are, and the deadline and the pitch
\* of each are those of the notes as they were at play() time.
C7_ReparseKeepsTriggers ==
    /\ [](\A t \in timers : FromSnapshot(t))
    /\ [](IsTrigger(lastOp)
            => lastOp.pitch = plays[lastOp.gen].notes[lastOp.idx].noteValue)
    /\ [][notes' # notes => timers' = timers]_vars

C7_Witness ==
    /\ playing
    /\ lastOp.op = "noteOn"
    /\ lastOp.gen = Len(plays)
    /\ notes # plays[Len(plays)].notes
    /\ \E t \in timers : t.gen = Len(plays) /\ t.kind = "on"

\* C8: playStop() calls stop() when Playing and play() otherwise: with notes
\* it flips the transport, without notes it leaves a Stopped one Stopped.
C8_PlayStopToggles ==
    [][lastOp'.op = "playStop"
          => /\ playing' = (~playing /\ Len(notes) >= 1)
             /\ playing =>
                  /\ notesQueued' = <<>>
                  /\ timers' = {t \in timers : t.id \notin Range(notesQueued)}
                  /\ stopMark' = Len(plays)
             /\ (~playing /\ Len(notes) >= 1) =>
                  /\ Len(plays') = Len(plays) + 1
                  /\ Len(notesQueued') = Len(notes)
                  /\ startTime' = now
             /\ (~playing /\ Len(notes) < 1) =>
                  UNCHANGED <<timers, startTime, notesQueued>>]_vars

C8_Witness ==
    /\ lastOp.op = "playStop"
    /\ lastOp.was
    /\ ~playing
    /\ Len(notes) >= 1
    /\ Len(plays) = 2

(***************************************************************************)
(* Properties of the parser.                                               *)
(***************************************************************************)
\* The twelve pitch letters, in chromatic order.
ChromaticLetters ==
    << <<"C">>, <<"C", "#">>, <<"D">>, <<"D", "#">>, <<"E">>, <<"F">>,
       <<"F", "#">>, <<"G">>, <<"G", "#">>, <<"A">>, <<"A", "#">>, <<"B">> >>

IsPitchLine(l) ==
    \E k \in 1..12 : l = ChromaticLetters[k] \/ l = toLowerCase(ChromaticLetters[k])

chromaticOffset(l) ==
    (CHOOSE k \in 1..12 :
        l = ChromaticLetters[k] \/ l = toLowerCase(ChromaticLetters[k])) - 1

IsOctaveDirective(l) == \E n \in OctaveArgs : l = OctaveLine(n)

ArgOfDirective(l) == CHOOSE n \in OctaveArgs : l = OctaveLine(n)

\* The lines of the input that are pitch lines, in order.
PitchLineIdx(ls) ==
    LET S == {i \in 1..Len(ls) : IsPitchLine(ls[i])}
    IN  [j \in 1..Cardinality(S) |->
            CHOOSE i \in S : Cardinality({k \in S : k < i}) = j - 1]

\* The last octave directive before line i, 0 when there is none.
LastDirective(ls, i) ==
    LET S == {k \in 1..(i - 1) : IsOctaveDirective(ls[k])}
    IN  IF S = {} THEN 0 ELSE CHOOSE k \in S : \A m \in S : m <= k

Returned == parser.pc = "returned"

\* C9: in a script with no octave directive, a note line C gets pitchValue 60.
C9_DefaultOctaveC60 ==
    (Returned /\ \A i \in 1..Len(parser.lines) : ~startsWith(parser.lines[i], kwOctave))
        => \A j \in 1..Len(parser.result) :
              toUpperCase(parser.result[j].noteLetter) = <<"C">>
                  => parser.result[j].noteValue = Int2Num(60)

\* C10: a pitch line L after `octave N`, N the most recent octave directive
\* before it, gets pitchValue 60 + chromaticOffset(L) + (N - 4) * 12.
C10_OctaveApplied ==
    (Returned /\ \A i \in 1..Len(parser.lines) :
                    IsPitchLine(parser.lines[i]) \/ IsOctaveDirective(parser.lines[i]))
        => LET idx == PitchLineIdx(parser.lines)
           IN  /\ Len(parser.result) = Len(idx)
               /\ \A j \in 1..Len(idx) :
                     LET d == LastDirective(parser.lines, idx[j])
                     IN  d # 0 =>
                           parser.result[j].noteValue =
                               Int2Num(60 + chromaticOffset(parser.lines[idx[j]])
                                       + (ArgOfDirective(parser.lines[d]) - 4) * 12)

C10_Witness ==
    /\ Returned
    /\ parser.input = JoinLines(<<OctaveLine(10), OctaveLine(-1), <<"c", "#">>>>)
    /\ Len(parser.result) = 1
    /\ parser.result[1].noteValue = Int2Num(1)

\* A line the parser takes for a pitch token that is none of the twelve keys.
UnknownToken(l) ==
    /\ trim(l) # <<>>
    /\ ~startsWith(l, kwOctave)
    /\ ~startsWith(l, kwStep)
    /\ trim(l) # kwRest
    /\ ~IsPitchLine(trim(l))

\* C11: a script with an unrecognized pitch token on any of its lines parses
\* to the empty sequence, whatever notes the lines before it produced.
C11_UnknownTokenEmptiesParse ==
    (Returned /\ \E i \in 1..Len(parser.lines) : UnknownToken(parser.lines[i]))
        => parser.result = <<>>

C11_Witness ==
    /\ Returned
    /\ parser.locals.thrown
    /\ Len(parser.locals.notes) >= 1
    /\ parser.next <= Len(parser.lines)
    /\ UnknownToken(parser.lines[parser.next - 1])
    /\ parser.result = <<>>

\* C12: a step directive whose value is not a number (a word, a fraction
\* with a non-numeric or missing part) leaves the step as it was, and the
\* step is not NaN after it.
C12_BadStepRetained ==
    [][(/\ parser.pc = "forEach"
        /\ parser'.pc = "forEach"
        /\ parser.lines[parser.next] \in {StepLine(a) : a \in MalformedStepArgs})
          => /\ parser'.locals.stepDuration = parser.locals.stepDuration
             /\ ~isNaN(parser'.locals.stepDuration)]_vars

\* The lines of ls that are not malformed octave directives.
WithoutMalformedOctave(ls) ==
    SelectSeq(ls, LAMBDA l : l \notin MalformedOctaveLines)

PitchValues(ns) == [j \in 1..Len(ns) |-> ns[j].noteValue]

\* C13: a malformed octave directive leaves the octave as it was: the notes
\* of the script have the pitchValue they have without that line.
C13_BadOctaveRetained ==
    (Returned /\ \E i \in 1..Len(parser.lines) :
                    parser.lines[i] \in MalformedOctaveLines)
        => PitchValues(parser.result) =
              PitchValues(parseMusicScript(
                  JoinLines(WithoutMalformedOctave(parser.lines))))

\* C14: the event a pitch line has just produced ends one step, the step in
\* force, after it starts, and ends after it starts.
C14_EventSpansStep ==
    (/\ parser.pc = "forEach"
     /\ parser.next > 1
     /\ ~parser.locals.thrown
     /\ IsPitchLine(trim(parser.lines[parser.next - 1])))
        => LET n == parser.locals.notes[Len(parser.locals.notes)]
           IN  /\ n.endTime = JsAdd(n.startTime, parser.locals.stepDuration)
               /\ JsGt(n.endTime, n.startTime)

\* No rest line strictly between lines a and b.
NoRestBetween(ls, a, b) == \A i \in (a + 1)..(b - 1) : trim(ls[i]) # kwRest

\* C15: of two consecutive events with no rest between their lines, step and
\* octave directives allowed, the first ends where the second starts.
C15_ConsecutiveEventsAbut ==
    (Returned /\ Len(parser.result) = Len(PitchLineIdx(parser.lines)))
        => LET idx == PitchLineIdx(parser.lines)
           IN  \A j \in 1..(Len(idx) - 1) :
                  NoRestBetween(parser.lines, idx[j], idx[j + 1])
                      => parser.result[j].endTime = parser.result[j + 1].startTime

C15_Witness ==
    /\ Returned
    /\ parser.lines = <<<<"C">>, StepLine(<<"0", ".", "5">>), <<"e">>>>
    /\ Len(parser.result) = 2
    /\ parser.result[1].endTime = <<1, 4>>
    /\ parser.result[2].startTime = <<1, 4>>
    /\ parser.result[2].endTime = <<3, 4>>

IsStepForm(l) == \E f \in StepForms : l = StepLine(f.arg)

ValueOfStepForm(l) == (CHOOSE f \in StepForms : l = StepLine(f.arg)).value

\* The start times a script of step directives, rests and pitch lines asks
\* for: the sum of the steps in force at the rests and pitch lines before
\* each pitch line.
RECURSIVE ExpectedStarts(_, _, _, _)
ExpectedStarts(ls, i, step, t) ==
    IF i > Len(ls) THEN <<>>
    ELSE IF ls[i] = kwRest THEN ExpectedStarts(ls, i + 1, step, JsAdd(t, step))
    ELSE IF IsPitchLine(ls[i])
         THEN <<t>> \o ExpectedStarts(ls, i + 1, step, JsAdd(t, step))
    ELSE ExpectedStarts(ls, i + 1, ValueOfStepForm(ls[i]), t)

\* C16: a rest emits no event and moves the cursor by the step in force: the
\* events are as many as the pitch lines, and each starts at the sum of the
\* steps of the rests and pitch lines before it.
C16_RestAdvancesCursor ==
    (Returned /\ \A i \in 1..Len(parser.lines) :
                    \/ parser.lines[i] = kwRest
                    \/ IsPitchLine(parser.lines[i])
                    \/ IsStepForm(parser.lines[i]))
        => LET want == ExpectedStarts(parser.lines, 1, <<1, 4>>, <<0, 1>>)
           IN  /\ Len(parser.result) = Len(want)
               /\ \A j \in 1..Len(want) : parser.result[j].startTime = want[j]

C16_Witness ==
    /\ Returned
    /\ parser.lines = <<StepLine(<<"0", ".", "5">>), kwRest, <<"C">>>>
    /\ Len(parser.result) = 1
    /\ parser.result[1].startTime = <<1, 2>>

\* The events of both sequences.
AllEvents ==
    {notes[i] : i \in 1..Len(notes)} \cup {ghostNotes[i] : i \in 1..Len(ghostNotes)}

\* The greatest and the least of a non-empty set of numbers.
Greatest(S) == CHOOSE m \in S : \A x \in S : ~JsGt(x, m)

Least(S) == CHOOSE m \in S : \A x \in S : ~JsLt(x, m)

\* C17: after setNotes and setGhostNotes calls, end is the greatest endTime
\* of the events of both sequences, and 0 when both are empty.
C17_EndIsMaxEndTime ==
    lastOp.op # "new"
        => end = IF AllEvents = {} THEN Int2Num(0)
                 ELSE Greatest({n.endTime : n \in AllEvents})

\* C18: with an event in either sequence, lowestNote and highestNote are the
\* least and the greatest noteValue of the events of both sequences, and
\* the two letters are those of events with these values.
C18_RangeIsMinMaxOfUnion ==
    AllEvents # {}
        => /\ highestNote = Greatest({n.noteValue : n \in AllEvents})
           /\ lowestNote = Least({n.noteValue : n \in AllEvents})
           /\ \E n \in AllEvents :
                 n.noteValue = highestNote /\ n.noteLetter = highestNoteLetter
           /\ \E n \in AllEvents :
                 n.noteValue = lowestNote /\ n.noteLetter = lowestNoteLetter

\* The ghost sequence widens the range of the notes at both ends.
C18_Witness ==
    /\ notes # <<>>
    /\ ghostNotes # <<>>
    /\ \A i \in 1..Len(notes) :
          JsLt(lowestNote, notes[i].noteValue) /\ JsGt(highestNote, notes[i].noteValue)
    /\ lowestNote = Int2Num(12)
    /\ highestNote = Int2Num(23)
    /\ lowestNoteLetter = <<"C">>
    /\ highestNoteLetter = <<"B">>

\* C19: a frame drawn while notes and ghostNotes are both empty, the
\* transport stopped or playing, returns early: it fills no background,
\* draws no rectangle and no glyph, and computes no noteHeight from
\* noteRange + 1.
C19_UndefinedRangeDrawsNothing ==
    (lastOp.op = "draw" /\ notes = <<>> /\ ghostNotes = <<>>)
        => lastOp = NoFrame

\* The lead-in of a playback, in ms: startDelay beats at bpm.
LeadInMs == (startDelay[1] * 1000 * 120) \div (startDelay[2] * bpm)

\* The time of a pending trigger in its playback's snapshot: the startTime of
\* its note for a note-on, the endTime for a note-off.
BeatsOf(t) ==
    LET n == plays[t.gen].notes[t.idx]
    IN  IF t.kind = "on" THEN n.startTime ELSE n.endTime

\* C20: every pending trigger is due (time + 0.5) * 1000 * (120 / bpm) ms
\* after the start of its playback, time being the startTime of its note for
\* a note-on and the endTime for a note-off; no trigger runs before the
\* lead-in has passed; when a note-off runs, the note-on of its note is no
\* longer pending.
C20_TriggerDeadlines ==
    /\ \A t \in timers :
          /\ IsFinite(BeatsOf(t))
          /\ t.due = DeadlineMs(plays[t.gen].at, BeatsOf(t))
    /\ lastOp.op \in {"noteOn", "noteOff"}
          => lastOp.at >= plays[lastOp.gen].at + LeadInMs
    /\ lastOp.op = "noteOff"
          => ~\E t \in timers :
                 t.kind = "on" /\ t.gen = lastOp.gen /\ t.idx = lastOp.idx

\* C21: when a playback note-off has run, its pitch does not sound on the
\* live keyboard's player either: a key of that pitch the user was holding
\* has been silenced with it.
C21_NoteOffSilencesLiveKey ==
    lastOp.op = "noteOff" => lastOp.pitch \notin globalAudio

\* A directive behind leading white space.
IndentedDirective(l) ==
    /\ l # <<>>
    /\ Head(l) \in WhiteSpace
    /\ startsWith(trim(l), kwOctave) \/ startsWith(trim(l), kwStep)

\* C22: a script with a directive behind leading white space parses to what
\* the script of its trimmed lines parses to.
C22_IndentedDirectiveAsTrimmed ==
    (Returned /\ \E i \in 1..Len(parser.lines) : IndentedDirective(parser.lines[i]))
        => parser.result =
              parseMusicScript(JoinLines(
                  [i \in 1..Len(parser.lines) |-> trim(parser.lines[i])]))

\* 0 <= x, and 0 <= y < 1, as comparisons of numbers: false of NaN.
AtLeastZero(x) == x = Int2Num(0) \/ JsGt(x, Int2Num(0))

InUnitInterval(y) == AtLeastZero(y) /\ JsLt(y, Int2Num(1))

\* C23: every y a frame computes for a note, in the still picture or in the
\* animation, lies in [0, 1); the top a note-on gives the marker lies in
\* [0, 1) and highestNote - noteValue of its note is at least 0.
C23_PositionInUnitInterval ==
    /\ lastOp.op = "draw" => \A y \in lastOp.ys : InUnitInterval(y)
    /\ lastOp.op = "noteOn"
          => /\ AtLeastZero(JsSub(ToNumber(highestNote), lastOp.pitch))
             /\ InUnitInterval(sword.top)

\* C24: no playback note is left sounding: once every timeout of the
\* playbacks has run or been cleared, so that no note-off is left to come,
\* no pitch sounds on the game's audio player.
C24_NoNoteLeftSounding == timers = {} => gameAudio = {}

\* C25: the transport is Stopped only after a stop() that no playback has
\* followed, so with every trigger run and no stop() it is still Playing;
\* a playStop() called while Playing leaves it Stopped and starts no
\* playback.
C25_PlayingUntilStop ==
    /\ ~playing => stopMark = Len(plays)
    /\ (lastOp.op = "playStop" /\ lastOp.was)
          => (~playing /\ stopMark = Len(plays))

\* Every trigger of every playback has run, stop() was never called.
C25_Witness ==
    /\ plays # <<>>
    /\ stopMark = 0
    /\ timers = {}
    /\ lastOp.op = "noteOff"
    /\ playing

\* C26: the callback runs for a hold timeout only if no noteoff for its note
\* was delivered after the timeout was set: the handle of the timeout that
\* ran is not below the next handle at the last noteoff for its note.
C26_NoCallbackAfterNoteoff ==
    lastOp.op = "hold" => lastOp.id >= ally.offMark[lastOp.note]

=============================================================================
